---- MODULE Spec2Model ----
(***************************************************************************)
(* State-machine model of contracts/MedicalRecords.sol: the ownership-     *)
(* gated medical record ledger.  Every public state-changing function of   *)
(* the contract is one action; every view function is an operator over the *)
(* contract storage, parameterised by msg.sender.  For every function the  *)
(* operator <function>Require gives the outcome of its modifier and its    *)
(* require statements in source order: OK, or the revert string of the     *)
(* first one that fails.  A transaction that reverts changes nothing: the  *)
(* EVM rolls back the storage and the log, so it is a stuttering step.     *)
(*                                                                         *)
(* The second part models backend/medical-records-api.js, the Express      *)
(* handlers that keep encrypted payloads in the MedicalRecord collection.  *)
(* Byte strings are terms: a payload is a one-element sequence, and        *)
(* encryptData, generateHash and the IPFS content address put their tag    *)
(* in front of the term they are applied to.  The handlers never call the  *)
(* contract, so the two parts have a specification each: Spec for the      *)
(* ledger and SpecRest for the handlers.                                   *)
(***************************************************************************)
EXTENDS Integers, Sequences, FiniteSets, TLC

(* ------------------------------ bounds --------------------------------- *)
\* externally owned accounts 1..NumAddrs that send transactions
NumAddrs == 2
\* distinct non-empty record ids callers may supply
NumIds == 2
\* length of the event log up to which transactions are explored
MaxEvents == 3
\* largest block timestamp explored
MaxTime == 2
\* record ids the upload handler can come to generate
NumRestIds == 2
\* distinct file contents that are uploaded
NumPayloads == 2

(* --------------------------- input domains ----------------------------- *)
\* address(0)
NullAddress == 0
Callers == 1..NumAddrs
Address == 0..NumAddrs

IdPool == <<"r1", "r2", "r3", "r4">>
RecordIds == {""} \cup {IdPool[i] : i \in 1..NumIds}
DataHashes == {"", "h1", "h2"}
RecordTypes == {"lab"}
Metadatas == {"m1", "m2"}
\* every index a record can occupy, and one that is always out of range
Indexes == 0..NumIds

\* bytes(s).length > 0
NonEmpty(s) == s /= ""

(* ----------------------------- storage --------------------------------- *)
VARIABLES
    patientRecords,          \* mapping(address => mapping(uint256 => MedicalRecord))
    patientRecordCount,      \* mapping(address => uint256)
    recordIdExists,          \* mapping(string => bool)
    authorizedPatients,      \* mapping(address => bool)
    owner,                   \* address
    totalRecordsStored,      \* uint256
    events,                  \* the log of emitted events, oldest first
    now,                     \* block.timestamp of the block being mined
    successfulAdds           \* history: per sender, addMedicalRecord calls that returned true

ledger == <<patientRecords, patientRecordCount, recordIdExists, authorizedPatients,
            owner, totalRecordsStored, events>>
vars == <<patientRecords, patientRecordCount, recordIdExists, authorizedPatients,
          owner, totalRecordsStored, events, now, successfulAdds>>

VARIABLES
    medicalRecords,          \* the documents of the MedicalRecord collection
    ipfsContent,             \* the contents handed to ipfsClient.add
    eventDocs                \* the documents of the Event collection

restVars == <<medicalRecords, ipfsContent, eventDocs>>

\* the value of a storage slot that was never written
ZeroRecord ==
    [recordId |-> "", encryptedDataHash |-> "", recordType |-> "", timestamp |-> 0,
     uploadedBy |-> NullAddress, isActive |-> FALSE, metadata |-> ""]

(* --------------------------- revert reasons ---------------------------- *)
OK == "ok"

\* the error kind of the ledger interface that a revert string stands for
ErrorKind(reason) ==
    CASE reason = "Only owner can call this function" -> "Unauthorized"
      [] reason = "Not authorized to add records" -> "Unauthorized"
      [] reason = "Only patient or owner can access" -> "Unauthorized"
      [] reason = "Invalid address" -> "InvalidArgument"
      [] reason = "New owner cannot be zero address" -> "InvalidArgument"
      [] reason = "Record ID cannot be empty" -> "InvalidArgument"
      [] reason = "Data hash cannot be empty" -> "InvalidArgument"
      [] reason = "Record ID already exists" -> "AlreadyExists"
      [] reason = "Invalid record index" -> "OutOfRange"
      [] reason = "Record not active" -> "InvalidState"
      [] reason = "Record already inactive" -> "InvalidState"
      [] OTHER -> "None"

(* ------------------------------ modifiers ------------------------------ *)
\* mutation: the owner check also lets authorized writers through
onlyOwner_OrAuthorized(sender) == sender = owner \/ authorizedPatients[sender]

onlyOwner(sender) == sender = owner

\* mutation: the owner is not implicitly permitted
onlyAuthorizedPatient_SetOnly(sender) == authorizedPatients[sender]

onlyAuthorizedPatient(sender) == authorizedPatients[sender] \/ sender = owner

\* mutation: authorized writers may read every address's records
onlyPatientOrOwner_OrAuthorized(sender, _patientAddress) ==
    sender = _patientAddress \/ sender = owner \/ authorizedPatients[sender]

onlyPatientOrOwner(sender, _patientAddress) ==
    sender = _patientAddress \/ sender = owner

(* ----------------------------- constructor ----------------------------- *)
Init ==
    /\ patientRecords = [a \in Address |-> [i \in Indexes |-> ZeroRecord]]
    /\ patientRecordCount = [a \in Address |-> 0]
    /\ recordIdExists = [id \in RecordIds |-> FALSE]
    /\ authorizedPatients = [a \in Address |-> FALSE]
    /\ owner \in Callers
    /\ totalRecordsStored = 0
    /\ events = <<>>
    /\ now = 1
    /\ successfulAdds = [a \in Address |-> 0]
    /\ medicalRecords = {}
    /\ ipfsContent = {}
    /\ eventDocs = {}

\* a transaction that reverted: every change is rolled back
Reverted == UNCHANGED vars

\* mutation: the newest event is put at the head of the log
Emit_Prepend(e) == events' = <<e>> \o events

\* emit: the event is appended to the log
Emit(e) == events' = Append(events, e)

(* ------------------------- authorization gate -------------------------- *)
authorizePatientRequire(sender, _patientAddress) ==
    IF ~onlyOwner(sender) THEN "Only owner can call this function"
    ELSE IF _patientAddress = NullAddress THEN "Invalid address"
    ELSE OK

authorizePatient(sender, _patientAddress) ==
    LET r == authorizePatientRequire(sender, _patientAddress) IN
    IF r /= OK THEN Reverted
    ELSE /\ Len(events) < MaxEvents
         /\ authorizedPatients' = [authorizedPatients EXCEPT ![_patientAddress] = TRUE]
         /\ Emit([kind |-> "PatientAuthorized",
               patientAddress |-> _patientAddress,
               timestamp |-> now])
         /\ UNCHANGED <<patientRecords, patientRecordCount, recordIdExists, owner,
                        totalRecordsStored, now, successfulAdds>>

deauthorizePatientRequire(sender, _patientAddress) ==
    IF ~onlyOwner(sender) THEN "Only owner can call this function" ELSE OK

\* mutation: revoking the permission also deactivates the patient's records
deauthorizePatient_Purge(sender, _patientAddress) ==
    LET r == deauthorizePatientRequire(sender, _patientAddress) IN
    IF r /= OK THEN Reverted
    ELSE /\ Len(events) < MaxEvents
         /\ authorizedPatients' = [authorizedPatients EXCEPT ![_patientAddress] = FALSE]
         /\ patientRecords' = [patientRecords EXCEPT ![_patientAddress] =
                [i \in Indexes |-> [@[i] EXCEPT !.isActive = FALSE]]]
         /\ Emit([kind |-> "PatientDeauthorized",
               patientAddress |-> _patientAddress,
               timestamp |-> now])
         /\ UNCHANGED <<patientRecordCount, recordIdExists, owner,
                        totalRecordsStored, now, successfulAdds>>

deauthorizePatient(sender, _patientAddress) ==
    LET r == deauthorizePatientRequire(sender, _patientAddress) IN
    IF r /= OK THEN Reverted
    ELSE /\ Len(events) < MaxEvents
         /\ authorizedPatients' = [authorizedPatients EXCEPT ![_patientAddress] = FALSE]
         /\ Emit([kind |-> "PatientDeauthorized",
               patientAddress |-> _patientAddress,
               timestamp |-> now])
         /\ UNCHANGED <<patientRecords, patientRecordCount, recordIdExists, owner,
                        totalRecordsStored, now, successfulAdds>>

\* mutation: the require on the new owner's address is missing
transferOwnershipRequire_NoNullCheck(sender, _newOwner) ==
    IF ~onlyOwner(sender) THEN "Only owner can call this function" ELSE OK

transferOwnershipRequire(sender, _newOwner) ==
    IF ~onlyOwner(sender) THEN "Only owner can call this function"
    ELSE IF _newOwner = NullAddress THEN "New owner cannot be zero address"
    ELSE OK

\* mutation: the outgoing owner is put into the authorized set on the way out
transferOwnership_KeepsWriter(sender, _newOwner) ==
    LET r == transferOwnershipRequire(sender, _newOwner) IN
    IF r /= OK THEN Reverted
    ELSE /\ owner' = _newOwner
         /\ authorizedPatients' = [authorizedPatients EXCEPT ![sender] = TRUE]
         /\ UNCHANGED <<patientRecords, patientRecordCount, recordIdExists,
                        totalRecordsStored, events, now, successfulAdds>>

transferOwnership(sender, _newOwner) ==
    LET r == transferOwnershipRequire(sender, _newOwner) IN
    IF r /= OK THEN Reverted
    ELSE /\ owner' = _newOwner
         /\ UNCHANGED <<patientRecords, patientRecordCount, recordIdExists,
                        authorizedPatients, totalRecordsStored, events, now, successfulAdds>>

(* --------------------------- record lifecycle -------------------------- *)
\* mutation: the require on recordIdExists is missing
addMedicalRecordRequire_NoDuplicateCheck(sender, _recordId, _encryptedDataHash) ==
    IF ~onlyAuthorizedPatient(sender) THEN "Not authorized to add records"
    ELSE IF ~NonEmpty(_recordId) THEN "Record ID cannot be empty"
    ELSE IF ~NonEmpty(_encryptedDataHash) THEN "Data hash cannot be empty"
    ELSE OK

addMedicalRecordRequire(sender, _recordId, _encryptedDataHash) ==
    IF ~onlyAuthorizedPatient(sender) THEN "Not authorized to add records"
    ELSE IF ~NonEmpty(_recordId) THEN "Record ID cannot be empty"
    ELSE IF ~NonEmpty(_encryptedDataHash) THEN "Data hash cannot be empty"
    ELSE IF recordIdExists[_recordId] THEN "Record ID already exists"
    ELSE OK

\* mutation: the id is not marked as used
addMedicalRecord_NoMark(sender, _recordId, _encryptedDataHash, _recordType, _metadata) ==
    LET r == addMedicalRecordRequire(sender, _recordId, _encryptedDataHash)
        recordIndex == patientRecordCount[sender]
    IN
    IF r /= OK THEN Reverted
    ELSE /\ Len(events) < MaxEvents
         /\ patientRecords' = [patientRecords EXCEPT ![sender][recordIndex] =
                [recordId |-> _recordId,
                 encryptedDataHash |-> _encryptedDataHash,
                 recordType |-> _recordType,
                 timestamp |-> now,
                 uploadedBy |-> sender,
                 isActive |-> TRUE,
                 metadata |-> _metadata]]
         /\ patientRecordCount' = [patientRecordCount EXCEPT ![sender] = @ + 1]
         /\ totalRecordsStored' = totalRecordsStored + 1
         /\ Emit([kind |-> "MedicalRecordAdded",
               patientAddress |-> sender,
               recordId |-> _recordId,
               recordType |-> _recordType,
               timestamp |-> now,
               uploadedBy |-> sender])
         /\ successfulAdds' = [successfulAdds EXCEPT ![sender] = @ + 1]
         /\ UNCHANGED <<recordIdExists, authorizedPatients, owner, now>>

\* mutation: the new record is stored at the global total instead of the sender's count
addMedicalRecord_GlobalIndex(sender, _recordId, _encryptedDataHash, _recordType, _metadata) ==
    LET r == addMedicalRecordRequire(sender, _recordId, _encryptedDataHash)
        recordIndex == totalRecordsStored
    IN
    IF r /= OK THEN Reverted
    ELSE /\ Len(events) < MaxEvents
         /\ patientRecords' = [patientRecords EXCEPT ![sender][recordIndex] =
                [recordId |-> _recordId,
                 encryptedDataHash |-> _encryptedDataHash,
                 recordType |-> _recordType,
                 timestamp |-> now,
                 uploadedBy |-> sender,
                 isActive |-> TRUE,
                 metadata |-> _metadata]]
         /\ recordIdExists' = [recordIdExists EXCEPT ![_recordId] = TRUE]
         /\ patientRecordCount' = [patientRecordCount EXCEPT ![sender] = @ + 1]
         /\ totalRecordsStored' = totalRecordsStored + 1
         /\ Emit([kind |-> "MedicalRecordAdded",
               patientAddress |-> sender,
               recordId |-> _recordId,
               recordType |-> _recordType,
               timestamp |-> now,
               uploadedBy |-> sender])
         /\ successfulAdds' = [successfulAdds EXCEPT ![sender] = @ + 1]
         /\ UNCHANGED <<authorizedPatients, owner, now>>

\* mutation: the total is bumped ahead of the requires and a failed call keeps it
addMedicalRecord_PartialWrite(sender, _recordId, _encryptedDataHash, _recordType, _metadata) ==
    LET r == addMedicalRecordRequire(sender, _recordId, _encryptedDataHash)
        recordIndex == patientRecordCount[sender]
    IN
    IF r /= OK
    THEN /\ totalRecordsStored < NumIds
         /\ totalRecordsStored' = totalRecordsStored + 1
         /\ UNCHANGED <<patientRecords, patientRecordCount, recordIdExists,
                        authorizedPatients, owner, events, now, successfulAdds>>
    ELSE /\ Len(events) < MaxEvents
         /\ patientRecords' = [patientRecords EXCEPT ![sender][recordIndex] =
                [recordId |-> _recordId,
                 encryptedDataHash |-> _encryptedDataHash,
                 recordType |-> _recordType,
                 timestamp |-> now,
                 uploadedBy |-> sender,
                 isActive |-> TRUE,
                 metadata |-> _metadata]]
         /\ recordIdExists' = [recordIdExists EXCEPT ![_recordId] = TRUE]
         /\ patientRecordCount' = [patientRecordCount EXCEPT ![sender] = @ + 1]
         /\ totalRecordsStored' = totalRecordsStored + 1
         /\ Emit([kind |-> "MedicalRecordAdded",
               patientAddress |-> sender,
               recordId |-> _recordId,
               recordType |-> _recordType,
               timestamp |-> now,
               uploadedBy |-> sender])
         /\ successfulAdds' = [successfulAdds EXCEPT ![sender] = @ + 1]
         /\ UNCHANGED <<authorizedPatients, owner, now>>

\* mutation: the increment of the sender's count is lost, as when two adds
\* interleave between the read and the write of the count
addMedicalRecord_LostIncrement(sender, _recordId, _encryptedDataHash, _recordType, _metadata) ==
    LET r == addMedicalRecordRequire(sender, _recordId, _encryptedDataHash)
        recordIndex == patientRecordCount[sender]
    IN
    IF r /= OK THEN Reverted
    ELSE /\ Len(events) < MaxEvents
         /\ patientRecords' = [patientRecords EXCEPT ![sender][recordIndex] =
                [recordId |-> _recordId,
                 encryptedDataHash |-> _encryptedDataHash,
                 recordType |-> _recordType,
                 timestamp |-> now,
                 uploadedBy |-> sender,
                 isActive |-> TRUE,
                 metadata |-> _metadata]]
         /\ recordIdExists' = [recordIdExists EXCEPT ![_recordId] = TRUE]
         /\ totalRecordsStored' = totalRecordsStored + 1
         /\ Emit([kind |-> "MedicalRecordAdded",
               patientAddress |-> sender,
               recordId |-> _recordId,
               recordType |-> _recordType,
               timestamp |-> now,
               uploadedBy |-> sender])
         /\ successfulAdds' = [successfulAdds EXCEPT ![sender] = @ + 1]
         /\ UNCHANGED <<patientRecordCount, authorizedPatients, owner, now>>

addMedicalRecord(sender, _recordId, _encryptedDataHash, _recordType, _metadata) ==
    LET r == addMedicalRecordRequire(sender, _recordId, _encryptedDataHash)
        recordIndex == patientRecordCount[sender]
    IN
    IF r /= OK THEN Reverted
    ELSE /\ Len(events) < MaxEvents
         /\ patientRecords' = [patientRecords EXCEPT ![sender][recordIndex] =
                [recordId |-> _recordId,
                 encryptedDataHash |-> _encryptedDataHash,
                 recordType |-> _recordType,
                 timestamp |-> now,
                 uploadedBy |-> sender,
                 isActive |-> TRUE,
                 metadata |-> _metadata]]
         /\ recordIdExists' = [recordIdExists EXCEPT ![_recordId] = TRUE]
         /\ patientRecordCount' = [patientRecordCount EXCEPT ![sender] = @ + 1]
         /\ totalRecordsStored' = totalRecordsStored + 1
         /\ Emit([kind |-> "MedicalRecordAdded",
               patientAddress |-> sender,
               recordId |-> _recordId,
               recordType |-> _recordType,
               timestamp |-> now,
               uploadedBy |-> sender])
         /\ successfulAdds' = [successfulAdds EXCEPT ![sender] = @ + 1]
         /\ UNCHANGED <<authorizedPatients, owner, now>>

\* mutation: the index is checked before the caller
updateMedicalRecordRequire_IndexFirst(sender, _recordIndex, _encryptedDataHash) ==
    IF ~(_recordIndex < patientRecordCount[sender]) THEN "Invalid record index"
    ELSE IF ~onlyAuthorizedPatient(sender) THEN "Not authorized to add records"
    ELSE IF ~patientRecords[sender][_recordIndex].isActive THEN "Record not active"
    ELSE IF ~NonEmpty(_encryptedDataHash) THEN "Data hash cannot be empty"
    ELSE OK

\* mutation: the require on isActive is missing from the update
updateMedicalRecordRequire_NoStateCheck(sender, _recordIndex, _encryptedDataHash) ==
    IF ~onlyAuthorizedPatient(sender) THEN "Not authorized to add records"
    ELSE IF ~(_recordIndex < patientRecordCount[sender]) THEN "Invalid record index"
    ELSE IF ~NonEmpty(_encryptedDataHash) THEN "Data hash cannot be empty"
    ELSE OK

\* mutation: the require on the data hash stands first after the modifier
updateMedicalRecordRequire_HashFirst(sender, _recordIndex, _encryptedDataHash) ==
    IF ~onlyAuthorizedPatient(sender) THEN "Not authorized to add records"
    ELSE IF ~NonEmpty(_encryptedDataHash) THEN "Data hash cannot be empty"
    ELSE IF ~(_recordIndex < patientRecordCount[sender]) THEN "Invalid record index"
    ELSE IF ~patientRecords[sender][_recordIndex].isActive THEN "Record not active"
    ELSE OK

updateMedicalRecordRequire(sender, _recordIndex, _encryptedDataHash) ==
    IF ~onlyAuthorizedPatient(sender) THEN "Not authorized to add records"
    ELSE IF ~(_recordIndex < patientRecordCount[sender]) THEN "Invalid record index"
    ELSE IF ~patientRecords[sender][_recordIndex].isActive THEN "Record not active"
    ELSE IF ~NonEmpty(_encryptedDataHash) THEN "Data hash cannot be empty"
    ELSE OK

\* mutation: the update rewrites the whole struct, as the add does, and skips the isActive require
updateMedicalRecord_Overwrite(sender, _recordIndex, _encryptedDataHash, _metadata) ==
    IF ~onlyAuthorizedPatient(sender) \/ ~(_recordIndex < patientRecordCount[sender])
          \/ ~NonEmpty(_encryptedDataHash)
    THEN Reverted
    ELSE /\ Len(events) < MaxEvents
         /\ patientRecords' = [patientRecords EXCEPT
                ![sender][_recordIndex].encryptedDataHash = _encryptedDataHash,
                ![sender][_recordIndex].metadata = _metadata,
                ![sender][_recordIndex].isActive = TRUE]
         /\ Emit([kind |-> "MedicalRecordUpdated",
               patientAddress |-> sender,
               recordId |-> patientRecords[sender][_recordIndex].recordId,
               timestamp |-> now])
         /\ UNCHANGED <<patientRecordCount, recordIdExists, authorizedPatients, owner,
                        totalRecordsStored, now, successfulAdds>>

\* mutation: the update also restamps the record with block.timestamp
updateMedicalRecord_Restamp(sender, _recordIndex, _encryptedDataHash, _metadata) ==
    LET r == updateMedicalRecordRequire(sender, _recordIndex, _encryptedDataHash) IN
    IF r /= OK THEN Reverted
    ELSE /\ Len(events) < MaxEvents
         /\ patientRecords' = [patientRecords EXCEPT
                ![sender][_recordIndex].encryptedDataHash = _encryptedDataHash,
                ![sender][_recordIndex].metadata = _metadata,
                ![sender][_recordIndex].timestamp = now]
         /\ Emit([kind |-> "MedicalRecordUpdated",
               patientAddress |-> sender,
               recordId |-> patientRecords[sender][_recordIndex].recordId,
               timestamp |-> now])
         /\ UNCHANGED <<patientRecordCount, recordIdExists, authorizedPatients, owner,
                        totalRecordsStored, now, successfulAdds>>

\* mutation: the write lands on the index in every address's sequence that
\* has it, as if the records were keyed by index alone
updateMedicalRecord_AllAddresses(sender, _recordIndex, _encryptedDataHash, _metadata) ==
    LET r == updateMedicalRecordRequire(sender, _recordIndex, _encryptedDataHash) IN
    IF r /= OK THEN Reverted
    ELSE /\ Len(events) < MaxEvents
         /\ patientRecords' =
               [a \in Address |->
                   IF _recordIndex < patientRecordCount[a]
                   THEN [patientRecords[a] EXCEPT
                            ![_recordIndex].encryptedDataHash = _encryptedDataHash,
                            ![_recordIndex].metadata = _metadata]
                   ELSE patientRecords[a]]
         /\ Emit([kind |-> "MedicalRecordUpdated",
               patientAddress |-> sender,
               recordId |-> patientRecords[sender][_recordIndex].recordId,
               timestamp |-> now])
         /\ UNCHANGED <<patientRecordCount, recordIdExists, authorizedPatients, owner,
                        totalRecordsStored, now, successfulAdds>>

updateMedicalRecord(sender, _recordIndex, _encryptedDataHash, _metadata) ==
    LET r == updateMedicalRecordRequire(sender, _recordIndex, _encryptedDataHash) IN
    IF r /= OK THEN Reverted
    ELSE /\ Len(events) < MaxEvents
         /\ patientRecords' = [patientRecords EXCEPT
                ![sender][_recordIndex].encryptedDataHash = _encryptedDataHash,
                ![sender][_recordIndex].metadata = _metadata]
         /\ Emit([kind |-> "MedicalRecordUpdated",
               patientAddress |-> sender,
               recordId |-> patientRecords[sender][_recordIndex].recordId,
               timestamp |-> now])
         /\ UNCHANGED <<patientRecordCount, recordIdExists, authorizedPatients, owner,
                        totalRecordsStored, now, successfulAdds>>

\* mutation: the require on isActive is missing
deactivateMedicalRecordRequire_NoStateCheck(sender, _recordIndex) ==
    IF ~onlyAuthorizedPatient(sender) THEN "Not authorized to add records"
    ELSE IF ~(_recordIndex < patientRecordCount[sender]) THEN "Invalid record index"
    ELSE OK

deactivateMedicalRecordRequire(sender, _recordIndex) ==
    IF ~onlyAuthorizedPatient(sender) THEN "Not authorized to add records"
    ELSE IF ~(_recordIndex < patientRecordCount[sender]) THEN "Invalid record index"
    ELSE IF ~patientRecords[sender][_recordIndex].isActive THEN "Record already inactive"
    ELSE OK

\* mutation: deactivation also takes the record out of the sender's count
deactivateMedicalRecord_Shrink(sender, _recordIndex) ==
    LET r == deactivateMedicalRecordRequire(sender, _recordIndex) IN
    IF r /= OK THEN Reverted
    ELSE /\ Len(events) < MaxEvents
         /\ patientRecords' = [patientRecords EXCEPT ![sender][_recordIndex].isActive = FALSE]
         /\ patientRecordCount' = [patientRecordCount EXCEPT ![sender] = @ - 1]
         /\ Emit([kind |-> "MedicalRecordDeactivated",
               patientAddress |-> sender,
               recordId |-> patientRecords[sender][_recordIndex].recordId,
               timestamp |-> now])
         /\ UNCHANGED <<recordIdExists, authorizedPatients, owner,
                        totalRecordsStored, now, successfulAdds>>

\* mutation: deactivation also takes the record out of the running total
deactivateMedicalRecord_Decrement(sender, _recordIndex) ==
    LET r == deactivateMedicalRecordRequire(sender, _recordIndex) IN
    IF r /= OK THEN Reverted
    ELSE /\ Len(events) < MaxEvents
         /\ patientRecords' = [patientRecords EXCEPT ![sender][_recordIndex].isActive = FALSE]
         /\ totalRecordsStored' = totalRecordsStored - 1
         /\ Emit([kind |-> "MedicalRecordDeactivated",
               patientAddress |-> sender,
               recordId |-> patientRecords[sender][_recordIndex].recordId,
               timestamp |-> now])
         /\ UNCHANGED <<patientRecordCount, recordIdExists, authorizedPatients, owner,
                        now, successfulAdds>>

\* mutation: deactivation releases the record's id for reuse
deactivateMedicalRecord_ReleaseId(sender, _recordIndex) ==
    LET r == deactivateMedicalRecordRequire(sender, _recordIndex) IN
    IF r /= OK THEN Reverted
    ELSE /\ Len(events) < MaxEvents
         /\ patientRecords' = [patientRecords EXCEPT ![sender][_recordIndex].isActive = FALSE]
         /\ recordIdExists' = [recordIdExists EXCEPT
                ![patientRecords[sender][_recordIndex].recordId] = FALSE]
         /\ Emit([kind |-> "MedicalRecordDeactivated",
               patientAddress |-> sender,
               recordId |-> patientRecords[sender][_recordIndex].recordId,
               timestamp |-> now])
         /\ UNCHANGED <<patientRecordCount, authorizedPatients, owner,
                        totalRecordsStored, now, successfulAdds>>

deactivateMedicalRecord(sender, _recordIndex) ==
    LET r == deactivateMedicalRecordRequire(sender, _recordIndex) IN
    IF r /= OK THEN Reverted
    ELSE /\ Len(events) < MaxEvents
         /\ patientRecords' = [patientRecords EXCEPT ![sender][_recordIndex].isActive = FALSE]
         /\ Emit([kind |-> "MedicalRecordDeactivated",
               patientAddress |-> sender,
               recordId |-> patientRecords[sender][_recordIndex].recordId,
               timestamp |-> now])
         /\ UNCHANGED <<patientRecordCount, recordIdExists, authorizedPatients, owner,
                        totalRecordsStored, now, successfulAdds>>

(* ---------------------------- view functions --------------------------- *)
\* mutation: the read filters inactive records, as getPatientRecordIds does
getMedicalRecord_ActiveOnly(sender, _patientAddress, _recordIndex) ==
    IF ~onlyPatientOrOwner(sender, _patientAddress)
    THEN [reverted |-> "Only patient or owner can access"]
    ELSE IF ~(_recordIndex < patientRecordCount[_patientAddress])
    THEN [reverted |-> "Invalid record index"]
    ELSE IF ~patientRecords[_patientAddress][_recordIndex].isActive
    THEN [reverted |-> "Record not active"]
    ELSE [reverted |-> OK, record |-> patientRecords[_patientAddress][_recordIndex]]

getMedicalRecord(sender, _patientAddress, _recordIndex) ==
    IF ~onlyPatientOrOwner(sender, _patientAddress)
    THEN [reverted |-> "Only patient or owner can access"]
    ELSE IF ~(_recordIndex < patientRecordCount[_patientAddress])
    THEN [reverted |-> "Invalid record index"]
    ELSE [reverted |-> OK, record |-> patientRecords[_patientAddress][_recordIndex]]

getPatientRecordCount(_patientAddress) == patientRecordCount[_patientAddress]

RECURSIVE CollectActiveIds_Reversed(_, _, _)
\* mutation: each active id is put in front of the ids collected so far
CollectActiveIds_Reversed(_patientAddress, i, count) ==
    IF ~(i < count) THEN <<>>
    ELSE IF patientRecords[_patientAddress][i].isActive
         THEN CollectActiveIds_Reversed(_patientAddress, i + 1, count)
              \o <<patientRecords[_patientAddress][i].recordId>>
         ELSE CollectActiveIds_Reversed(_patientAddress, i + 1, count)

RECURSIVE CollectActiveIds(_, _, _)
\* the second loop of getPatientRecordIds, from index i up to count
CollectActiveIds(_patientAddress, i, count) ==
    IF ~(i < count) THEN <<>>
    ELSE IF patientRecords[_patientAddress][i].isActive
         THEN <<patientRecords[_patientAddress][i].recordId>>
              \o CollectActiveIds(_patientAddress, i + 1, count)
         ELSE CollectActiveIds(_patientAddress, i + 1, count)

getPatientRecordIds(sender, _patientAddress) ==
    IF ~onlyPatientOrOwner(sender, _patientAddress)
    THEN [reverted |-> "Only patient or owner can access"]
    ELSE [reverted |-> OK,
          recordIds |-> CollectActiveIds(_patientAddress, 0,
                                         patientRecordCount[_patientAddress])]

isPatientAuthorized(_patientAddress) == authorizedPatients[_patientAddress]

getTotalRecords == totalRecordsStored

getMyRecordCount(sender) == patientRecordCount[sender]

amIAuthorized(sender) == authorizedPatients[sender]

(* ------------------------------ the chain ------------------------------ *)
\* a later block is mined: block.timestamp advances
NextBlock ==
    /\ now < MaxTime
    /\ now' = now + 1
    /\ UNCHANGED <<ledger, successfulAdds>>

Next ==
    \/ \E s \in Callers, a \in Address :
          authorizePatient(s, a) /\ UNCHANGED restVars
    \/ \E s \in Callers, a \in Address :
          deauthorizePatient(s, a) /\ UNCHANGED restVars
    \/ \E s \in Callers, a \in Address :
          transferOwnership(s, a) /\ UNCHANGED restVars
    \/ \E s \in Callers, id \in RecordIds, h \in DataHashes, t \in RecordTypes,
          m \in Metadatas : addMedicalRecord(s, id, h, t, m) /\ UNCHANGED restVars
    \/ \E s \in Callers, i \in Indexes, h \in DataHashes, m \in Metadatas :
          updateMedicalRecord(s, i, h, m) /\ UNCHANGED restVars
    \/ \E s \in Callers, i \in Indexes :
          deactivateMedicalRecord(s, i) /\ UNCHANGED restVars
    \/ NextBlock /\ UNCHANGED restVars

Spec == Init /\ [][Next]_vars

(* ======================= the REST layer (Express) ====================== *)
(* ------------------------------ domains -------------------------------- *)
PayloadPool == <<"p1", "p2", "p3", "p4">>
\* file.buffer of an uploaded file: a plaintext term
Payloads == {<<PayloadPool[i]>> : i \in 1..NumPayloads}
\* req.file when the request carries no file
NoFile == <<>>

RestIdPool == <<"REC-1", "REC-2", "REC-3", "REC-4">>
\* the values 'REC-' + Date.now() + '-' + random hex can take
RestIds == {RestIdPool[i] : i \in 1..NumRestIds}

\* the values of crypto.randomBytes(16)
IVs == {"iv1", "iv2"}

\* the memberIDs found in the Patient collection
Patients == {"m1", "m2"}
\* the memberIDs a request can carry
MemberIDs == Patients \cup {"m9"}

\* txHash of a confirm-blockchain request
TxHashes == {"0xt1"}

\* a field that was never set (null, undefined)
Null == <<>>

(* ------------------------- encryption utilities ------------------------ *)
\* AES-256-CBC of data under the server key with the given iv
encryptData(data, iv) ==
    [encryptedData |-> <<"aes-256-cbc", iv>> \o data, iv |-> iv]

decryptData(encryptedData, iv) ==
    IF Len(encryptedData) >= 2 /\ encryptedData[1] = "aes-256-cbc" /\ encryptedData[2] = iv
    THEN SubSeq(encryptedData, 3, Len(encryptedData))
    ELSE <<"garbage">>

\* SHA-256 of data
generateHash(data) == <<"sha256">> \o data

\* the path ipfsClient.add answers with: the content address of what was added
IpfsPath(content) == <<"cid">> \o content

(* ------------------------------ handlers ------------------------------- *)
\* the document of the collection with this recordId, as a set (empty: none)
FindOne(recordId) == {d \in medicalRecords : d.recordId = recordId}

\* POST /api/medical-records/upload: the HTTP status of the response
uploadStatus(memberID, file, recordId) ==
    IF file = NoFile THEN 400
    ELSE IF memberID \notin Patients THEN 404
    ELSE IF FindOne(recordId) /= {} THEN 500
    ELSE 200

\* POST /api/medical-records/upload.  recordId and iv are the values the
\* handler draws; ipfsUp tells whether ipfsClient.add went through.  The
\* document's dataHash and ipfsHash are also the ones of the response body.
upload(memberID, file, recordId, iv, ipfsUp) ==
    LET status == uploadStatus(memberID, file, recordId)
        encrypted == encryptData(file, iv)
        dataHash == generateHash(file)
        ipfsHash == IF ipfsUp THEN IpfsPath(file) ELSE Null
    IN
    IF status \in {400, 404} THEN UNCHANGED restVars
    ELSE /\ ipfsContent' = IF ipfsUp THEN ipfsContent \cup {file} ELSE ipfsContent
         /\ IF status = 500
            THEN UNCHANGED <<medicalRecords, eventDocs>>
            ELSE /\ medicalRecords' = medicalRecords \cup
                       {[recordId |-> recordId,
                         memberID |-> memberID,
                         encryptedData |-> encrypted.encryptedData,
                         encryptionIV |-> encrypted.iv,
                         dataHash |-> dataHash,
                         ipfsHash |-> ipfsHash,
                         blockchainTxHash |-> "",
                         blockchainConfirmed |-> FALSE,
                         isActive |-> TRUE]}
                 /\ eventDocs' = eventDocs \cup
                       {[eventType |-> "medical_record:uploaded",
                         memberID |-> memberID,
                         recordId |-> recordId,
                         dataHash |-> dataHash,
                         ipfsHash |-> ipfsHash]}

\* GET /api/medical-records/:memberID
listRecords(memberID) ==
    {d \in medicalRecords : d.memberID = memberID /\ d.isActive}

\* GET /api/medical-records/:recordId/download: status and body
download(recordId, memberID) ==
    IF FindOne(recordId) = {} THEN [status |-> 404, body |-> Null]
    ELSE LET record == CHOOSE d \in FindOne(recordId) : TRUE IN
         IF record.memberID /= memberID THEN [status |-> 403, body |-> Null]
         ELSE [status |-> 200,
               body |-> decryptData(record.encryptedData, record.encryptionIV)]

\* GET /api/medical-records/:recordId/download: the access is logged
downloadRecord(recordId, memberID) ==
    IF download(recordId, memberID).status /= 200 THEN UNCHANGED restVars
    ELSE /\ eventDocs' = eventDocs \cup
               {[eventType |-> "medical_record:accessed",
                 memberID |-> memberID,
                 recordId |-> recordId,
                 dataHash |-> Null,
                 ipfsHash |-> Null]}
         /\ UNCHANGED <<medicalRecords, ipfsContent>>

\* POST /api/medical-records/:recordId/confirm-blockchain
confirmBlockchain(recordId, txHash) ==
    IF FindOne(recordId) = {} THEN UNCHANGED restVars
    ELSE /\ medicalRecords' =
               {IF d.recordId = recordId
                THEN [d EXCEPT !.blockchainTxHash = txHash, !.blockchainConfirmed = TRUE]
                ELSE d : d \in medicalRecords}
         /\ UNCHANGED <<ipfsContent, eventDocs>>

\* mutation: the comparison of the record's memberID with the request's is missing
deleteStatus_NoOwnerCheck(recordId, memberID) ==
    IF FindOne(recordId) = {} THEN 404 ELSE 200

\* DELETE /api/medical-records/:recordId: the HTTP status of the response
deleteStatus(recordId, memberID) ==
    IF FindOne(recordId) = {} THEN 404
    ELSE IF \E d \in FindOne(recordId) : d.memberID /= memberID THEN 403
    ELSE 200

\* DELETE /api/medical-records/:recordId
deleteRecord(recordId, memberID) ==
    IF deleteStatus(recordId, memberID) /= 200 THEN UNCHANGED restVars
    ELSE /\ medicalRecords' =
               {IF d.recordId = recordId THEN [d EXCEPT !.isActive = FALSE] ELSE d :
                  d \in medicalRecords}
         /\ eventDocs' = eventDocs \cup
               {[eventType |-> "medical_record:deactivated",
                 memberID |-> memberID,
                 recordId |-> recordId,
                 dataHash |-> Null,
                 ipfsHash |-> Null]}
         /\ UNCHANGED ipfsContent

\* GET /api/medical-records/stats/:memberID: totalRecords
statsTotalRecords(memberID) == Cardinality(listRecords(memberID))

NextRest ==
    \/ \E memberID \in MemberIDs, file \in Payloads \cup {NoFile}, recordId \in RestIds,
          iv \in IVs, ipfsUp \in BOOLEAN :
          upload(memberID, file, recordId, iv, ipfsUp) /\ UNCHANGED vars
    \/ \E recordId \in RestIds, memberID \in MemberIDs :
          downloadRecord(recordId, memberID) /\ UNCHANGED vars
    \/ \E recordId \in RestIds, txHash \in TxHashes :
          confirmBlockchain(recordId, txHash) /\ UNCHANGED vars
    \/ \E recordId \in RestIds, memberID \in MemberIDs :
          deleteRecord(recordId, memberID) /\ UNCHANGED vars

SpecRest == Init /\ [][NextRest]_<<vars, restVars>>

(* ---------------------- vocabulary of the properties ------------------- *)
\* slot i of address a holds a record (i is below a's count)
Stored(a, i) == i < patientRecordCount[a]

\* some stored record, active or not, under any address carries this id
IdUsed(id) ==
    \E a \in Address, i \in Indexes : Stored(a, i) /\ patientRecords[a][i].recordId = id

AuthorizedSet == {a \in Address : authorizedPatients[a]}

\* the caller is the current owner or is currently in the authorized set
PassesGate(s) == s = owner \/ s \in AuthorizedSet

\* a step that changed something (a reverted transaction changes nothing)
Changed == vars' /= vars

(* ------------------------------- C1 ------------------------------------ *)
\* C1: in every reachable state no two stored records, under the same or
\* different addresses, active or inactive, have the same recordId.
C1_UniqueRecordIds ==
    \A a, b \in Address : \A i, j \in Indexes :
        (Stored(a, i) /\ Stored(b, j) /\ <<a, i>> /= <<b, j>>)
            => patientRecords[a][i].recordId /= patientRecords[b][j].recordId

\* two addresses hold records, one of them deactivated
C1_Witness ==
    \E a, b \in Address :
        /\ a /= b
        /\ Stored(a, 0) /\ Stored(b, 0)
        /\ ~patientRecords[a][0].isActive

(* ------------------------------- C2 ------------------------------------ *)
\* C2 as stated: addRecord by a caller that passes the gate, with a non-empty
\* recordId already used by any address, fails with AlreadyExists (whatever
\* the other arguments are).
C2_Original ==
    \A s \in Callers, id \in RecordIds \ {""}, h \in DataHashes :
        (PassesGate(s) /\ IdUsed(id))
            => ErrorKind(addMedicalRecordRequire(s, id, h)) = "AlreadyExists"

\* C2 amended: such a call always fails and adds no record; it fails with
\* AlreadyExists when the dataHash is non-empty and with InvalidArgument when
\* the dataHash is empty (the emptiness checks come first).
C2_DuplicateIdRejected ==
    [][ /\ \A s \in Callers, id \in RecordIds \ {""}, h \in DataHashes :
              (PassesGate(s) /\ IdUsed(id))
                  => ErrorKind(addMedicalRecordRequire(s, id, h)) =
                         IF h = "" THEN "InvalidArgument" ELSE "AlreadyExists"
        /\ Changed =>
              \A s \in Callers, id \in RecordIds \ {""} :
                  (PassesGate(s) /\ IdUsed(id)) =>
                      \A h \in DataHashes, t \in RecordTypes, m \in Metadatas :
                          addMedicalRecord(s, id, h, t, m)
                              => UNCHANGED <<patientRecords, patientRecordCount,
                                             totalRecordsStored, recordIdExists>>
      ]_vars

\* an id stored under one address is offered again by another caller that
\* passes the gate, and the call reverts with the duplicate-id reason
C2_Witness ==
    \E a \in Address, s \in Callers :
        /\ s /= a
        /\ Stored(a, 0)
        /\ PassesGate(s)
        /\ addMedicalRecordRequire(s, patientRecords[a][0].recordId, "h1")
               = "Record ID already exists"

(* ------------------------------- C3 ------------------------------------ *)
\* C3 as stated: addRecord with a recordId never used by any address succeeds
\* under any caller.
C3_Original ==
    \A s \in Callers, id \in RecordIds \ {""}, h \in DataHashes :
        ~IdUsed(id) => addMedicalRecordRequire(s, id, h) = OK

\* C3 amended: addRecord with a fresh non-empty recordId and a non-empty
\* dataHash succeeds under any caller that passes the authorization gate,
\* whichever address that is and whoever stored the earlier records.
C3_FreshIdAccepted ==
    \A s \in Callers, id \in RecordIds \ {""}, h \in DataHashes \ {""} :
        (PassesGate(s) /\ ~IdUsed(id)) => addMedicalRecordRequire(s, id, h) = OK

\* a caller other than the owner has stored a record, and an id that is
\* still unused is accepted from it
C3_Witness ==
    \E s \in Callers \ {owner}, id \in RecordIds \ {""} :
        /\ Stored(s, 0)
        /\ ~IdUsed(id)
        /\ addMedicalRecordRequire(s, id, "h1") = OK

(* ------------------------------- C4 ------------------------------------ *)
\* C4: addRecord, updateRecord and deactivateRecord fail with Unauthorized,
\* whatever their arguments, exactly when the caller is neither the current
\* owner nor in the authorized set; the owner passes without being in the set.
C4_WriteGate ==
    \A s \in Callers :
        /\ \A id \in RecordIds, h \in DataHashes :
              (ErrorKind(addMedicalRecordRequire(s, id, h)) = "Unauthorized")
                  <=> ~(s = owner \/ s \in AuthorizedSet)
        /\ \A i \in Indexes, h \in DataHashes :
              (ErrorKind(updateMedicalRecordRequire(s, i, h)) = "Unauthorized")
                  <=> ~(s = owner \/ s \in AuthorizedSet)
        /\ \A i \in Indexes :
              (ErrorKind(deactivateMedicalRecordRequire(s, i)) = "Unauthorized")
                  <=> ~(s = owner \/ s \in AuthorizedSet)

\* the owner was deauthorized and then stored a record, while another caller
\* is outside the gate
C4_Witness ==
    /\ owner \notin AuthorizedSet
    /\ \E k, l \in 1..Len(events) :
          /\ k < l
          /\ events[k].kind = "PatientDeauthorized" /\ events[k].patientAddress = owner
          /\ events[l].kind = "MedicalRecordAdded" /\ events[l].patientAddress = owner
    /\ \E s \in Callers : ~PassesGate(s)

(* ------------------------------- C5 ------------------------------------ *)
\* C5: authorize, deauthorize and transferOwnership called by an address
\* other than the current owner fail with Unauthorized and leave the
\* authorized set and the owner unchanged.
C5_OwnerOnly ==
    [][ \A s \in Callers \ {owner}, a \in Address :
            /\ ErrorKind(authorizePatientRequire(s, a)) = "Unauthorized"
            /\ ErrorKind(deauthorizePatientRequire(s, a)) = "Unauthorized"
            /\ ErrorKind(transferOwnershipRequire(s, a)) = "Unauthorized"
            /\ Changed =>
                  ((authorizePatient(s, a) \/ deauthorizePatient(s, a)
                        \/ transferOwnership(s, a))
                      => UNCHANGED <<authorizedPatients, owner>>)
      ]_vars

\* a caller that is authorized to write, but is not the owner, is refused
C5_Witness ==
    \E s \in Callers \ {owner} :
        /\ s \in AuthorizedSet
        /\ Stored(s, 0)
        /\ authorizePatientRequire(s, s) = "Only owner can call this function"
        /\ transferOwnershipRequire(s, s) = "Only owner can call this function"

(* ------------------------------- C6 ------------------------------------ *)
\* every owner-only call by s is refused
OwnerOnlyDenied(s) ==
    \A a \in Address :
        /\ ErrorKind(authorizePatientRequire(s, a)) = "Unauthorized"
        /\ ErrorKind(deauthorizePatientRequire(s, a)) = "Unauthorized"
        /\ ErrorKind(transferOwnershipRequire(s, a)) = "Unauthorized"

\* s cannot read the records of any other address
ForeignReadsDenied(s) ==
    \A a \in Address \ {s} :
        /\ \A i \in Indexes :
              ErrorKind(getMedicalRecord(s, a, i).reverted) = "Unauthorized"
        /\ ErrorKind(getPatientRecordIds(s, a).reverted) = "Unauthorized"

\* s passes every owner-only check and the access check of every read
OwnerPrivileges(s) ==
    \A a \in Address :
        /\ ErrorKind(authorizePatientRequire(s, a)) /= "Unauthorized"
        /\ ErrorKind(deauthorizePatientRequire(s, a)) /= "Unauthorized"
        /\ ErrorKind(transferOwnershipRequire(s, a)) /= "Unauthorized"
        /\ \A i \in Indexes :
              ErrorKind(getMedicalRecord(s, a, i).reverted) /= "Unauthorized"
        /\ getPatientRecordIds(s, a).reverted = OK

\* C6: right after a successful transferOwnership(N) by owner O, N /= O, the
\* owner-only calls of O and O's reads of other addresses' records fail with
\* Unauthorized, and N has those privileges.
C6_TransferRevokesOwner ==
    [][ \A O, N \in Callers :
            (O = owner /\ N /= O /\ transferOwnership(O, N))
                => (OwnerOnlyDenied(O) /\ ForeignReadsDenied(O) /\ OwnerPrivileges(N))'
      ]_vars

\* two addresses stored records though nobody was ever authorized, so the
\* ownership moved between them; the earlier owner is now locked out
C6_Witness ==
    \E O \in Callers \ {owner} :
        /\ Stored(O, 0) /\ Stored(owner, 0)
        /\ \A k \in 1..Len(events) : events[k].kind = "MedicalRecordAdded"
        /\ OwnerOnlyDenied(O)
        /\ getMedicalRecord(O, owner, 0).reverted = "Only patient or owner can access"
        /\ getMedicalRecord(owner, O, 0).reverted = OK

(* ------------------------------- C7 ------------------------------------ *)
\* C7: a stored record is never deleted and keeps its recordId, and once its
\* isActive is false it stays false, whatever call is made by whatever caller.
C7_OneWayLifecycle ==
    [][ \A a \in Address, i \in Indexes :
            Stored(a, i) =>
                /\ Stored(a, i)'
                /\ patientRecords'[a][i].recordId = patientRecords[a][i].recordId
                /\ ~patientRecords[a][i].isActive => ~patientRecords'[a][i].isActive
      ]_vars

\* a record was deactivated and the ledger went on changing: another event
\* follows the deactivation, and the record is still stored and inactive
C7_Witness ==
    \E a \in Address, k \in 1..Len(events) :
        /\ events[k].kind = "MedicalRecordDeactivated"
        /\ events[k].patientAddress = a
        /\ k < Len(events)
        /\ Stored(a, 0) /\ ~patientRecords[a][0].isActive
        /\ patientRecords[a][0].recordId = events[k].recordId

(* ------------------------------- C8 ------------------------------------ *)
\* C8: for every address A, getRecordCount(A) never decreases, always equals
\* the number of successful addRecord calls made by A, and is left unchanged
\* by updateRecord and deactivateRecord.
C8_CountMonotone ==
    [][ /\ \A a \in Address :
              /\ getPatientRecordCount(a) = successfulAdds[a]
              /\ getPatientRecordCount(a)' = successfulAdds'[a]
              /\ getPatientRecordCount(a)' >= getPatientRecordCount(a)
        /\ Changed =>
              /\ \A s \in Callers, i \in Indexes, h \in DataHashes, m \in Metadatas :
                    updateMedicalRecord(s, i, h, m) => UNCHANGED patientRecordCount
              /\ \A s \in Callers, i \in Indexes :
                    deactivateMedicalRecord(s, i) => UNCHANGED patientRecordCount
      ]_vars

\* an address added two records and deactivated one: its count is still two
C8_Witness ==
    \E a \in Address :
        /\ getPatientRecordCount(a) = 2
        /\ successfulAdds[a] = 2
        /\ ~patientRecords[a][0].isActive

(* ------------------------------- C9 ------------------------------------ *)
\* C9: a successful addRecord by C stores the record at index = C's count
\* before the call, with the given id, isActive = true and uploadedBy = C,
\* raises getRecordCount(C) and getTotalRecords() by exactly one and marks
\* the id as used.
C9_AddEffect ==
    [][ Changed =>
          \A s \in Callers, id \in RecordIds, h \in DataHashes,
             t \in RecordTypes, m \in Metadatas :
              (addMedicalRecordRequire(s, id, h) = OK /\ addMedicalRecord(s, id, h, t, m))
                  => \A index \in {getPatientRecordCount(s)} :
                        LET stored == (getMedicalRecord(s, s, index))'
                        IN
                        /\ stored.reverted = OK
                        /\ stored.record.recordId = id
                        /\ stored.record.isActive
                        /\ stored.record.uploadedBy = s
                        /\ getPatientRecordCount(s)' = index + 1
                        /\ getTotalRecords' = getTotalRecords + 1
                        /\ recordIdExists'[id]
                        /\ IdUsed(id)'
      ]_vars

\* the owner authorized P and P's first addRecord went through:
\* getRecordCount(P) = 1 and getRecord(P, 0) is active
C9_Witness ==
    \E P \in Callers \ {owner} :
        /\ Len(events) = 2
        /\ events[1] = [kind |-> "PatientAuthorized", patientAddress |-> P,
                        timestamp |-> events[1].timestamp]
        /\ events[2].kind = "MedicalRecordAdded" /\ events[2].patientAddress = P
        /\ getPatientRecordCount(P) = 1
        /\ getTotalRecords = 1
        /\ getMedicalRecord(P, P, 0).reverted = OK
        /\ getMedicalRecord(P, P, 0).record.isActive
        /\ getMedicalRecord(P, P, 0).record.uploadedBy = P

(* ------------------------------- C10 ----------------------------------- *)
\* C10 as stated: deactivateRecord(index) on an already inactive record of
\* the caller fails with InvalidState.
C10_Original ==
    \A s \in Callers, i \in Indexes :
        (Stored(s, i) /\ ~patientRecords[s][i].isActive)
            => ErrorKind(deactivateMedicalRecordRequire(s, i)) = "InvalidState"

\* C10 amended: deactivateRecord(index) by a caller that passes the gate, on
\* an already inactive record of that caller, fails with InvalidState and
\* leaves isActive false; on an active record it succeeds and leaves the
\* record inactive, so that the same call repeated right after it fails.
C10_SecondDeactivateFails ==
    [][ /\ \A s \in Callers, i \in Indexes :
              (PassesGate(s) /\ Stored(s, i))
                  => IF patientRecords[s][i].isActive
                     THEN deactivateMedicalRecordRequire(s, i) = OK
                     ELSE ErrorKind(deactivateMedicalRecordRequire(s, i)) = "InvalidState"
        /\ Changed =>
              \A s \in Callers, i \in Indexes :
                  /\ (PassesGate(s) /\ Stored(s, i) /\ ~patientRecords[s][i].isActive
                        /\ deactivateMedicalRecord(s, i))
                         => ~patientRecords'[s][i].isActive
                  /\ (deactivateMedicalRecordRequire(s, i) = OK
                        /\ deactivateMedicalRecord(s, i))
                         => /\ ~patientRecords'[s][i].isActive
                            /\ (deactivateMedicalRecordRequire(s, i))'
                                   = "Record already inactive"
      ]_vars

\* the last committed call deactivated a record of a caller that still passes
\* the gate; repeating the call is refused because the record is inactive
C10_Witness ==
    \E s \in Callers :
        /\ Len(events) > 0
        /\ events[Len(events)].kind = "MedicalRecordDeactivated"
        /\ events[Len(events)].patientAddress = s
        /\ PassesGate(s)
        /\ Stored(s, 0) /\ ~patientRecords[s][0].isActive
        /\ deactivateMedicalRecordRequire(s, 0) = "Record already inactive"

(* ------------------------------- C11 ----------------------------------- *)
\* C11 as stated: updateRecord(index, dataHash, metadata) targeting an
\* inactive record of the caller fails with InvalidState, for every dataHash.
C11_Original ==
    \A s \in Callers, i \in Indexes, h \in DataHashes :
        (Stored(s, i) /\ ~patientRecords[s][i].isActive)
            => ErrorKind(updateMedicalRecordRequire(s, i, h)) = "InvalidState"

\* C11 amended: updateRecord(index, dataHash, metadata) by a caller that
\* passes the gate, targeting an inactive record of that caller, fails with
\* InvalidState for every dataHash and metadata (the empty dataHash
\* included), and the call leaves the record's dataHash and metadata as
\* they were.
C11_InactiveUpdateFails ==
    [][ /\ \A s \in Callers, i \in Indexes, h \in DataHashes :
              (PassesGate(s) /\ Stored(s, i) /\ ~patientRecords[s][i].isActive)
                  => ErrorKind(updateMedicalRecordRequire(s, i, h)) = "InvalidState"
        /\ Changed =>
              \A s \in Callers, i \in Indexes, h \in DataHashes, m \in Metadatas :
                  (Stored(s, i) /\ ~patientRecords[s][i].isActive
                     /\ updateMedicalRecord(s, i, h, m))
                      => /\ patientRecords'[s][i].encryptedDataHash
                                = patientRecords[s][i].encryptedDataHash
                         /\ patientRecords'[s][i].metadata = patientRecords[s][i].metadata
      ]_vars

\* a caller that passes the gate holds an inactive record with hash h1 and
\* metadata m1; updating it to h2 is refused because the record is inactive
C11_Witness ==
    \E s \in Callers :
        /\ PassesGate(s)
        /\ Stored(s, 0) /\ ~patientRecords[s][0].isActive
        /\ patientRecords[s][0].encryptedDataHash = "h1"
        /\ patientRecords[s][0].metadata = "m1"
        /\ updateMedicalRecordRequire(s, 0, "h2") = "Record not active"
        /\ updateMedicalRecordRequire(s, 0, "") = "Record not active"

(* ------------------------------- C12 ----------------------------------- *)
\* C12: for every address A and every reachable state, getRecordIds(A)
\* called by A or by the owner returns exactly the recordIds of A's active
\* records in increasing index order: its length is the number of active
\* records, and the id of each active record stands at the position given by
\* the number of active records with a smaller index.
C12_ActiveIdsInOrder ==
    \A a \in Address, s \in Callers :
        (s = a \/ s = owner) =>
            LET res == getPatientRecordIds(s, a)
                active == {i \in Indexes : Stored(a, i) /\ patientRecords[a][i].isActive}
            IN /\ res.reverted = OK
               /\ Len(res.recordIds) = Cardinality(active)
               /\ \A i \in active :
                     res.recordIds[Cardinality({j \in active : j < i}) + 1]
                         = patientRecords[a][i].recordId
               /\ \A i \in Indexes :
                     (Stored(a, i) /\ ~patientRecords[a][i].isActive)
                         => \A k \in 1..Len(res.recordIds) :
                               res.recordIds[k] /= patientRecords[a][i].recordId

\* address A added r1 and r2 and deactivated index 0: A and the owner both
\* get [r2]
C12_Witness ==
    \E a \in Callers :
        /\ getPatientRecordCount(a) = 2
        /\ patientRecords[a][0].recordId = "r1" /\ ~patientRecords[a][0].isActive
        /\ patientRecords[a][1].recordId = "r2" /\ patientRecords[a][1].isActive
        /\ getPatientRecordIds(a, a) = [reverted |-> OK, recordIds |-> <<"r2">>]
        /\ getPatientRecordIds(owner, a) = [reverted |-> OK, recordIds |-> <<"r2">>]

(* ------------------------------- C13 ----------------------------------- *)
\* C13: getRecord(A, index) by a caller that is neither A nor the current
\* owner fails with Unauthorized, whether or not that caller is in the
\* authorized set; by A or the owner it fails with OutOfRange when
\* index >= getRecordCount(A), and otherwise succeeds and returns the stored
\* record in full, active or not: its recordId, recordType, timestamp and
\* uploader are those of the record-added event of A for that id.
C13_ReadAccess ==
    \A s \in Callers, a \in Address, i \in Indexes :
        LET res == getMedicalRecord(s, a, i) IN
        IF s /= a /\ s /= owner
        THEN ErrorKind(res.reverted) = "Unauthorized"
        ELSE IF i >= getPatientRecordCount(a)
        THEN ErrorKind(res.reverted) = "OutOfRange"
        ELSE /\ res.reverted = OK
             /\ res.record = patientRecords[a][i]
             /\ \E k \in 1..Len(events) :
                   events[k] = [kind |-> "MedicalRecordAdded",
                                patientAddress |-> a,
                                recordId |-> res.record.recordId,
                                recordType |-> res.record.recordType,
                                timestamp |-> res.record.timestamp,
                                uploadedBy |-> res.record.uploadedBy]

\* A holds an inactive record and is in the authorized set, and the owner is
\* somebody else: A and the owner both read the inactive record, A is refused
\* the owner's slot although authorized, and index 1 of A is out of range
C13_Witness ==
    \E a \in Callers \ {owner} :
        /\ a \in AuthorizedSet
        /\ getPatientRecordCount(a) = 1
        /\ getMedicalRecord(a, a, 0).reverted = OK
        /\ ~getMedicalRecord(a, a, 0).record.isActive
        /\ getMedicalRecord(owner, a, 0) = getMedicalRecord(a, a, 0)
        /\ getMedicalRecord(a, owner, 0).reverted = "Only patient or owner can access"
        /\ getMedicalRecord(owner, a, 1).reverted = "Invalid record index"

(* ------------------------------- C14 ----------------------------------- *)
\* the error kinds a lifecycle or gate call can fail with
FailureKinds ==
    {"Unauthorized", "InvalidArgument", "AlreadyExists", "OutOfRange", "InvalidState"}

\* some lifecycle or gate call that passes all its requires is this step
SomeCallCommitted ==
    \/ \E s \in Callers, a \in Address :
          \/ authorizePatientRequire(s, a) = OK /\ authorizePatient(s, a)
          \/ deauthorizePatientRequire(s, a) = OK /\ deauthorizePatient(s, a)
          \/ transferOwnershipRequire(s, a) = OK /\ transferOwnership(s, a)
    \/ \E s \in Callers, id \in RecordIds, h \in DataHashes, t \in RecordTypes,
          m \in Metadatas :
          addMedicalRecordRequire(s, id, h) = OK /\ addMedicalRecord(s, id, h, t, m)
    \/ \E s \in Callers, i \in Indexes, h \in DataHashes, m \in Metadatas :
          updateMedicalRecordRequire(s, i, h) = OK /\ updateMedicalRecord(s, i, h, m)
    \/ \E s \in Callers, i \in Indexes :
          deactivateMedicalRecordRequire(s, i) = OK /\ deactivateMedicalRecord(s, i)

\* C14: every lifecycle or gate call either passes all its requires or fails
\* with one of Unauthorized, InvalidArgument, AlreadyExists, OutOfRange,
\* InvalidState; a call that fails leaves owner, authorized set, records,
\* counts, used-id set, total counter and event log as they were, and the
\* ledger changes only in a step in which some call committed.
C14_FailedCallsChangeNothing ==
    [][ Changed =>
          /\ \A s \in Callers, a \in Address :
                /\ authorizePatientRequire(s, a) /= OK
                      => /\ ErrorKind(authorizePatientRequire(s, a)) \in FailureKinds
                         /\ authorizePatient(s, a) => ledger' = ledger
                /\ deauthorizePatientRequire(s, a) /= OK
                      => /\ ErrorKind(deauthorizePatientRequire(s, a)) \in FailureKinds
                         /\ deauthorizePatient(s, a) => ledger' = ledger
                /\ transferOwnershipRequire(s, a) /= OK
                      => /\ ErrorKind(transferOwnershipRequire(s, a)) \in FailureKinds
                         /\ transferOwnership(s, a) => ledger' = ledger
          /\ \A s \in Callers, id \in RecordIds, h \in DataHashes :
                addMedicalRecordRequire(s, id, h) /= OK
                   => /\ ErrorKind(addMedicalRecordRequire(s, id, h)) \in FailureKinds
                      /\ \A t \in RecordTypes, m \in Metadatas :
                            addMedicalRecord(s, id, h, t, m) => ledger' = ledger
          /\ \A s \in Callers, i \in Indexes, h \in DataHashes :
                updateMedicalRecordRequire(s, i, h) /= OK
                   => /\ ErrorKind(updateMedicalRecordRequire(s, i, h)) \in FailureKinds
                      /\ \A m \in Metadatas :
                            updateMedicalRecord(s, i, h, m) => ledger' = ledger
          /\ \A s \in Callers, i \in Indexes :
                deactivateMedicalRecordRequire(s, i) /= OK
                   => /\ ErrorKind(deactivateMedicalRecordRequire(s, i)) \in FailureKinds
                      /\ deactivateMedicalRecord(s, i) => ledger' = ledger
          /\ ledger' /= ledger => SomeCallCommitted
      ]_vars

\* a state in which a call of each failure kind is on offer: the owner holds
\* one inactive record r1, the other caller is not authorized
C14_Witness ==
    \E s \in Callers \ {owner} :
        /\ ~PassesGate(s)
        /\ Len(events) = 2
        /\ ErrorKind(addMedicalRecordRequire(s, "r2", "h1")) = "Unauthorized"
        /\ ErrorKind(authorizePatientRequire(s, s)) = "Unauthorized"
        /\ ErrorKind(addMedicalRecordRequire(owner, "r1", "h1")) = "AlreadyExists"
        /\ ErrorKind(addMedicalRecordRequire(owner, "", "h1")) = "InvalidArgument"
        /\ ErrorKind(authorizePatientRequire(owner, NullAddress)) = "InvalidArgument"
        /\ ErrorKind(updateMedicalRecordRequire(owner, 1, "h1")) = "OutOfRange"
        /\ ErrorKind(deactivateMedicalRecordRequire(owner, 0)) = "InvalidState"

(* ------------------------------- C15 ----------------------------------- *)
\* C15: a successful updateRecord(index, dataHash, metadata) sets the
\* dataHash and metadata of the caller's record at that index to the supplied
\* values and leaves that record's recordId, recordType, timestamp,
\* uploadedBy and isActive unchanged, as well as the caller's count, the
\* total counter and the used-id set.
C15_UpdateFrame ==
    [][ Changed =>
          \A s \in Callers, i \in Indexes, h \in DataHashes, m \in Metadatas :
              (updateMedicalRecordRequire(s, i, h) = OK /\ updateMedicalRecord(s, i, h, m))
                  => /\ patientRecords'[s][i].encryptedDataHash = h
                     /\ patientRecords'[s][i].metadata = m
                     /\ patientRecords'[s][i].recordId = patientRecords[s][i].recordId
                     /\ patientRecords'[s][i].recordType = patientRecords[s][i].recordType
                     /\ patientRecords'[s][i].timestamp = patientRecords[s][i].timestamp
                     /\ patientRecords'[s][i].uploadedBy = patientRecords[s][i].uploadedBy
                     /\ patientRecords'[s][i].isActive = patientRecords[s][i].isActive
                     /\ patientRecordCount'[s] = patientRecordCount[s]
                     /\ totalRecordsStored' = totalRecordsStored
                     /\ recordIdExists' = recordIdExists
      ]_vars

\* the last committed call updated record r1 of s, added in an earlier
\* block, to h2/m2: the record keeps its id, its creation timestamp and its
\* uploader and stays active, and the counters stay at one
C15_Witness ==
    \E s \in Callers :
        /\ Len(events) = 2
        /\ events[1].kind = "MedicalRecordAdded"
        /\ events[1].patientAddress = s /\ events[1].recordId = "r1"
        /\ events[2] = [kind |-> "MedicalRecordUpdated", patientAddress |-> s,
                        recordId |-> "r1", timestamp |-> 2]
        /\ patientRecords[s][0] = [recordId |-> "r1", encryptedDataHash |-> "h2",
                                   recordType |-> "lab", timestamp |-> 1,
                                   uploadedBy |-> s, isActive |-> TRUE,
                                   metadata |-> "m2"]
        /\ patientRecordCount[s] = 1 /\ totalRecordsStored = 1
        /\ recordIdExists["r1"] /\ ~recordIdExists["r2"]

(* ------------------------------- C16 ----------------------------------- *)
\* C16: in every reachable state authorize(0) and transferOwnership(0)
\* called by the owner fail with InvalidArgument, the owner is a single
\* address that is not the null address, and the null address is not in the
\* authorized set.
C16_NullAddressExcluded ==
    /\ ErrorKind(authorizePatientRequire(owner, NullAddress)) = "InvalidArgument"
    /\ ErrorKind(transferOwnershipRequire(owner, NullAddress)) = "InvalidArgument"
    /\ owner \in Callers
    /\ owner /= NullAddress
    /\ Cardinality({a \in Address : onlyOwner(a)}) = 1
    /\ NullAddress \notin AuthorizedSet
    /\ ~isPatientAuthorized(NullAddress)

\* ownership has moved on from the address that added the first record as
\* owner, and the new owner has authorized it and then deauthorized the null
\* address; both calls with the null address are still refused
C16_Witness ==
    \E s \in Callers \ {owner} :
        /\ Len(events) = 3
        /\ events[1].kind = "MedicalRecordAdded" /\ events[1].patientAddress = s
        /\ events[2].kind = "PatientAuthorized" /\ events[2].patientAddress = s
        /\ events[3].kind = "PatientDeauthorized"
        /\ events[3].patientAddress = NullAddress
        /\ AuthorizedSet = {s}
        /\ authorizePatientRequire(owner, NullAddress) = "Invalid address"
        /\ transferOwnershipRequire(owner, NullAddress) = "New owner cannot be zero address"

(* ------------------------------- C17 ----------------------------------- *)
\* this step appended exactly one event, of this kind and for this address,
\* stamped with the block time, behind the events already in the log
AppendedOne(kind, address) ==
    /\ Len(events') = Len(events) + 1
    /\ SubSeq(events', 1, Len(events)) = events
    /\ events'[Len(events')].kind = kind
    /\ events'[Len(events')].patientAddress = address
    /\ events'[Len(events')].timestamp = now

\* C17: every successful authorize, deauthorize, addRecord, updateRecord and
\* deactivateRecord appends exactly one event of the matching kind to the
\* log, carrying the affected address and, for the record events, the
\* recordId of the affected record; events already in the log keep their
\* places, so the log is in commit order, and no other step touches the log.
C17_OneEventPerCommit ==
    [][ Changed =>
          /\ \A s \in Callers, a \in Address :
                /\ (authorizePatientRequire(s, a) = OK /\ authorizePatient(s, a))
                      => AppendedOne("PatientAuthorized", a)
                /\ (deauthorizePatientRequire(s, a) = OK /\ deauthorizePatient(s, a))
                      => AppendedOne("PatientDeauthorized", a)
          /\ \A s \in Callers, id \in RecordIds, h \in DataHashes, t \in RecordTypes,
                m \in Metadatas :
                (addMedicalRecordRequire(s, id, h) = OK /\ addMedicalRecord(s, id, h, t, m))
                    => /\ AppendedOne("MedicalRecordAdded", s)
                       /\ events'[Len(events')].recordId = id
                       /\ events'[Len(events')].recordType = t
                       /\ events'[Len(events')].uploadedBy = s
          /\ \A s \in Callers, i \in Indexes, h \in DataHashes, m \in Metadatas :
                (updateMedicalRecordRequire(s, i, h) = OK /\ updateMedicalRecord(s, i, h, m))
                    => /\ AppendedOne("MedicalRecordUpdated", s)
                       /\ events'[Len(events')].recordId = patientRecords[s][i].recordId
          /\ \A s \in Callers, i \in Indexes :
                (deactivateMedicalRecordRequire(s, i) = OK /\ deactivateMedicalRecord(s, i))
                    => /\ AppendedOne("MedicalRecordDeactivated", s)
                       /\ events'[Len(events')].recordId = patientRecords[s][i].recordId
          /\ events' /= events
                => /\ Len(events') = Len(events) + 1
                   /\ SubSeq(events', 1, Len(events)) = events
      ]_vars

\* s added r1, updated it in a later block and deactivated it: the log holds
\* the three events in that order, each for s and r1
C17_Witness ==
    \E s \in Callers :
        /\ Len(events) = 3
        /\ events[1].kind = "MedicalRecordAdded"
        /\ events[2].kind = "MedicalRecordUpdated"
        /\ events[3].kind = "MedicalRecordDeactivated"
        /\ \A k \in 1..3 : events[k].patientAddress = s /\ events[k].recordId = "r1"
        /\ events[1].timestamp = 1 /\ events[2].timestamp = 2
        /\ patientRecords[s][0].recordId = "r1"
        /\ ~patientRecords[s][0].isActive

(* ------------------------------- C18 ----------------------------------- *)
\* the positions in the log of the addRecord calls that committed
AddedEvents == {k \in 1..Len(events) : events[k].kind = "MedicalRecordAdded"}

\* C18: calls are atomic and committed in a total order, with every order of
\* the callers' addRecord calls allowed.  At most one committed addRecord
\* carries a given recordId; a committed addRecord of caller s takes the free
\* slot at index = count of s, moves no other slot of s and raises the count
\* of s by exactly one, so that the committed adds of s fill the indexes
\* 0 .. count-1, one each.
C18_SerializedAdds ==
    [][ Changed =>
          /\ \A k1, k2 \in AddedEvents :
                k1 /= k2 => events[k1].recordId /= events[k2].recordId
          /\ \A s \in Callers :
                /\ successfulAdds[s] = patientRecordCount[s]
                /\ Cardinality({k \in AddedEvents : events[k].patientAddress = s})
                      = patientRecordCount[s]
                /\ \A k \in AddedEvents :
                      events[k].patientAddress = s
                         => Cardinality({i \in Indexes :
                                Stored(s, i)
                                  /\ patientRecords[s][i].recordId = events[k].recordId}) = 1
          /\ \A s \in Callers, id \in RecordIds, h \in DataHashes, t \in RecordTypes,
                m \in Metadatas :
                (addMedicalRecordRequire(s, id, h) = OK /\ addMedicalRecord(s, id, h, t, m))
                    => \A index \in {patientRecordCount[s]} :
                          /\ \A k \in AddedEvents : events[k].recordId /= id
                          /\ patientRecords[s][index] = ZeroRecord
                          /\ patientRecords'[s][index].recordId = id
                          /\ patientRecordCount'[s] = index + 1
                          /\ \A j \in Indexes \ {index} :
                                patientRecords'[s][j] = patientRecords[s][j]
      ]_vars

\* s committed two adds, r1 at index 0 and r2 at index 1, while another
\* caller that passes the gate was competing: whichever of the two ids that
\* caller uses now, its add is refused
C18_Witness ==
    \E s, c \in Callers :
        /\ s /= c
        /\ PassesGate(s) /\ PassesGate(c)
        /\ successfulAdds[s] = 2 /\ successfulAdds[c] = 0
        /\ patientRecords[s][0].recordId = "r1"
        /\ patientRecords[s][1].recordId = "r2"
        /\ addMedicalRecordRequire(c, "r1", "h1") = "Record ID already exists"
        /\ addMedicalRecordRequire(c, "r2", "h1") = "Record ID already exists"

(* ------------------------------- C20 ----------------------------------- *)
\* C20: for a caller that passes the gate, updateRecord(index, dataHash, _)
\* fails with OutOfRange when index >= the caller's own count, whatever the
\* dataHash; otherwise with InvalidState when the caller's record at index is
\* inactive, even if the dataHash is empty; otherwise with InvalidArgument
\* when the dataHash is empty; otherwise it passes.  Nothing but the
\* caller's own count and records enters the decision.
C20_UpdateCheckOrder ==
    \A s \in Callers, i \in Indexes, h \in DataHashes :
        PassesGate(s) =>
            LET r == updateMedicalRecordRequire(s, i, h) IN
            IF i >= getMyRecordCount(s) THEN ErrorKind(r) = "OutOfRange"
            ELSE IF ~getMedicalRecord(s, s, i).record.isActive
            THEN ErrorKind(r) = "InvalidState"
            ELSE IF h = "" THEN ErrorKind(r) = "InvalidArgument"
            ELSE r = OK

\* s passes the gate, its record 0 is inactive and its record 1 active, and
\* the other caller has no record: with an empty dataHash index 2 is out of
\* range, index 0 is refused as inactive and index 1 for the empty hash
C20_Witness ==
    \E s, c \in Callers :
        /\ s /= c
        /\ PassesGate(s)
        /\ getMyRecordCount(s) = 2 /\ getMyRecordCount(c) = 0
        /\ updateMedicalRecordRequire(s, 2, "") = "Invalid record index"
        /\ updateMedicalRecordRequire(s, 0, "") = "Record not active"
        /\ updateMedicalRecordRequire(s, 1, "") = "Data hash cannot be empty"
        /\ updateMedicalRecordRequire(s, 1, "h2") = OK

(* ------------------------------- C19 ----------------------------------- *)
RECURSIVE DerivedFromPlaintext(_)
\* the term is a plaintext payload, or a hash or content address computed
\* from one with no encryption in between
DerivedFromPlaintext(term) ==
    IF term = Null THEN FALSE
    ELSE IF Head(term) = "aes-256-cbc" THEN FALSE
    ELSE IF Head(term) \in {"sha256", "cid"} THEN DerivedFromPlaintext(Tail(term))
    ELSE TRUE

\* C19 as stated: in the upload operation the payload is encrypted before
\* the dataHash is computed, so the dataHash of every stored record is the
\* hash of its encrypted payload, and neither a dataHash nor anything handed
\* to external storage is, or is computed directly from, a plaintext payload.
C19_Original ==
    /\ \A d \in medicalRecords :
          /\ d.dataHash = generateHash(d.encryptedData)
          /\ ~DerivedFromPlaintext(d.dataHash)
    /\ \A content \in ipfsContent : ~DerivedFromPlaintext(content)

\* an upload of payload p1 for patient m1 went through with IPFS up: the
\* stored payload is encrypted, yet the dataHash is the hash of p1 itself
\* and p1 itself was handed to IPFS
C19_Witness ==
    \E d \in medicalRecords :
        /\ d.memberID = "m1"
        /\ decryptData(d.encryptedData, d.encryptionIV) = <<"p1">>
        /\ d.encryptedData /= <<"p1">>
        /\ d.dataHash = generateHash(<<"p1">>)
        /\ d.dataHash /= generateHash(d.encryptedData)
        /\ d.ipfsHash = IpfsPath(<<"p1">>)
        /\ <<"p1">> \in ipfsContent

(* ------------------------------- C21 ----------------------------------- *)
RECURSIVE SumOfRecordCounts(_)
\* the sum of getRecordCount(A) over the addresses of the set
SumOfRecordCounts(addresses) ==
    IF addresses = {} THEN 0
    ELSE LET a == CHOOSE x \in addresses : TRUE
         IN getPatientRecordCount(a) + SumOfRecordCounts(addresses \ {a})

\* C21: in every reachable state getTotalRecords() equals the sum over all
\* addresses A of getRecordCount(A), and no step makes it smaller.
C21_TotalIsSumOfCounts ==
    [][ Changed =>
          /\ getTotalRecords = SumOfRecordCounts(Address)
          /\ (getTotalRecords)' = (SumOfRecordCounts(Address))'
          /\ (getTotalRecords)' >= getTotalRecords
      ]_vars

\* two addresses hold one record each, one of the two deactivated: the
\* total is still two
C21_Witness ==
    \E a, b \in Callers :
        /\ a /= b
        /\ getPatientRecordCount(a) = 1 /\ getPatientRecordCount(b) = 1
        /\ ~patientRecords[a][0].isActive /\ patientRecords[b][0].isActive
        /\ getTotalRecords = 2
        /\ SumOfRecordCounts(Address) = 2

(* ------------------------------- C22 ----------------------------------- *)
\* a record call of this sender passed its requires and is this step
RecordCallCommittedBy(s) ==
    \/ \E id \in RecordIds, h \in DataHashes, t \in RecordTypes, m \in Metadatas :
          addMedicalRecordRequire(s, id, h) = OK /\ addMedicalRecord(s, id, h, t, m)
    \/ \E i \in Indexes, h \in DataHashes, m \in Metadatas :
          updateMedicalRecordRequire(s, i, h) = OK /\ updateMedicalRecord(s, i, h, m)
    \/ \E i \in Indexes :
          deactivateMedicalRecordRequire(s, i) = OK /\ deactivateMedicalRecord(s, i)

\* C22: addRecord, updateRecord and deactivateRecord invoked by caller C
\* leave the records and the count of every other address unchanged; the
\* records and count of an address change only in a step that is a record
\* call of that address itself, so nobody, the owner included, updates or
\* deactivates a record stored under another address; and every stored
\* record's uploadedBy is the address under which it is stored.
C22_OwnSequenceOnly ==
    [][ Changed =>
          /\ \A s \in Callers :
                RecordCallCommittedBy(s)
                   => \A a \in Address \ {s} :
                         /\ patientRecords'[a] = patientRecords[a]
                         /\ patientRecordCount'[a] = patientRecordCount[a]
          /\ \A a \in Address :
                (patientRecords'[a] /= patientRecords[a]
                   \/ patientRecordCount'[a] /= patientRecordCount[a])
                    => a \in Callers /\ RecordCallCommittedBy(a)
          /\ \A a \in Address, i \in Indexes :
                Stored(a, i) => patientRecords[a][i].uploadedBy = a
      ]_vars

\* a holds r1 with hash h1 at its index 0; the owner b, another address,
\* added r2 and then updated its own index 0 to h2: a's index 0 still holds
\* h1 and both records name their own address as uploader
C22_Witness ==
    \E a, b \in Callers :
        /\ a /= b /\ b = owner
        /\ Len(events) = 3
        /\ events[2].kind = "MedicalRecordAdded" /\ events[2].patientAddress = b
        /\ events[3].kind = "MedicalRecordUpdated" /\ events[3].patientAddress = b
        /\ patientRecords[a][0].recordId = "r1"
        /\ patientRecords[a][0].encryptedDataHash = "h1"
        /\ patientRecords[a][0].uploadedBy = a
        /\ patientRecords[b][0].recordId = "r2"
        /\ patientRecords[b][0].encryptedDataHash = "h2"
        /\ patientRecords[b][0].uploadedBy = b

(* ------------------------------- C23 ----------------------------------- *)
\* the ids marked as used
UsedIds == {id \in RecordIds : recordIdExists[id]}

\* the ids of the stored records that are inactive
DeactivatedIds ==
    {patientRecords[a][i].recordId :
        <<a, i>> \in {p \in Address \X Indexes :
                         Stored(p[1], p[2]) /\ ~patientRecords[p[1]][p[2]].isActive}}

\* C23 as stated: addRecord with the id of a deactivated record fails with
\* AlreadyExists for every caller (the call being well-formed otherwise: a
\* non-empty dataHash).
C23_Original ==
    \A s \in Callers, id \in DeactivatedIds, h \in DataHashes \ {""} :
        ErrorKind(addMedicalRecordRequire(s, id, h)) = "AlreadyExists"

\* C23 amended: in every reachable state the used-id set is exactly the set
\* of recordIds of the stored records, active or inactive; no step takes an
\* id out of it, deactivation in particular; and addRecord with the id of a
\* deactivated record fails for every caller, with AlreadyExists when the
\* caller passes the gate and the dataHash is not empty.
C23_UsedIdsOnlyGrow ==
    [][ Changed =>
          /\ UsedIds = {id \in RecordIds : IdUsed(id)}
          /\ UsedIds \subseteq UsedIds'
          /\ \A s \in Callers, i \in Indexes :
                (deactivateMedicalRecordRequire(s, i) = OK /\ deactivateMedicalRecord(s, i))
                    => /\ patientRecords[s][i].recordId \in UsedIds'
                       /\ patientRecords[s][i].recordId \in DeactivatedIds'
          /\ \A s \in Callers, id \in DeactivatedIds, h \in DataHashes :
                /\ addMedicalRecordRequire(s, id, h) /= OK
                /\ (PassesGate(s) /\ h /= "")
                      => ErrorKind(addMedicalRecordRequire(s, id, h)) = "AlreadyExists"
      ]_vars

\* r1 was added and deactivated by a, and s was authorized afterwards: r1 is
\* still marked as used, and a and s, who both pass the gate, are refused it
C23_Witness ==
    \E a, s \in Callers :
        /\ a /= s
        /\ PassesGate(a) /\ PassesGate(s)
        /\ Len(events) = 3
        /\ events[2] = [kind |-> "MedicalRecordDeactivated", patientAddress |-> a,
                        recordId |-> "r1", timestamp |-> events[2].timestamp]
        /\ DeactivatedIds = {"r1"}
        /\ UsedIds = {"r1"}
        /\ addMedicalRecordRequire(a, "r1", "h1") = "Record ID already exists"
        /\ addMedicalRecordRequire(s, "r1", "h2") = "Record ID already exists"

(* ------------------------------- C24 ----------------------------------- *)
\* C24: a successful transferOwnership(N) by the owner O, N another address,
\* makes N the owner and leaves the authorized set, all records and counts,
\* the used-id set, the total counter and the event log as they were; after
\* it O passes the write gate exactly if O is in the authorized set.  (With
\* N = O the call changes nothing at all.)
C24_TransferFrame ==
    [][ Changed =>
          \A O, N \in Callers :
              (transferOwnershipRequire(O, N) = OK /\ transferOwnership(O, N))
                  => /\ owner' = N
                     /\ authorizedPatients' = authorizedPatients
                     /\ patientRecords' = patientRecords
                     /\ patientRecordCount' = patientRecordCount
                     /\ recordIdExists' = recordIdExists
                     /\ totalRecordsStored' = totalRecordsStored
                     /\ events' = events
                     /\ (onlyAuthorizedPatient(O))' <=> O \in AuthorizedSet
                     /\ \A id \in RecordIds, h \in DataHashes, i \in Indexes :
                           /\ (ErrorKind(addMedicalRecordRequire(O, id, h)) = "Unauthorized")'
                                 <=> O \notin AuthorizedSet
                           /\ (ErrorKind(updateMedicalRecordRequire(O, i, h)) = "Unauthorized")'
                                 <=> O \notin AuthorizedSet
                           /\ (ErrorKind(deactivateMedicalRecordRequire(O, i)) = "Unauthorized")'
                                 <=> O \notin AuthorizedSet
      ]_vars

\* O added a record as the owner and handed the ownership over: the log
\* holds the add and nothing else, nobody is authorized, and O is now
\* refused at the write gate for its own record
C24_Witness ==
    \E O \in Callers \ {owner} :
        /\ Len(events) = 1
        /\ events[1].kind = "MedicalRecordAdded" /\ events[1].patientAddress = O
        /\ AuthorizedSet = {}
        /\ getPatientRecordCount(O) = 1 /\ getTotalRecords = 1
        /\ patientRecords[O][0].isActive
        /\ ~onlyAuthorizedPatient(O)
        /\ updateMedicalRecordRequire(O, 0, "h2") = "Not authorized to add records"
        /\ updateMedicalRecordRequire(owner, 0, "h2") = "Invalid record index"

(* ------------------------------- C25 ----------------------------------- *)
\* every write call of P is refused at the gate
WritesDenied(P) ==
    /\ \A id \in RecordIds, h \in DataHashes :
          ErrorKind(addMedicalRecordRequire(P, id, h)) = "Unauthorized"
    /\ \A i \in Indexes, h \in DataHashes :
          ErrorKind(updateMedicalRecordRequire(P, i, h)) = "Unauthorized"
    /\ \A i \in Indexes :
          ErrorKind(deactivateMedicalRecordRequire(P, i)) = "Unauthorized"

\* P writes to its own records again: an active record takes an update and a
\* deactivation, an inactive one is refused as inactive, an unused id is taken
WritesAllowed(P) ==
    /\ \A i \in Indexes :
          Stored(P, i) =>
              IF patientRecords[P][i].isActive
              THEN /\ updateMedicalRecordRequire(P, i, "h1") = OK
                   /\ deactivateMedicalRecordRequire(P, i) = OK
              ELSE /\ ErrorKind(updateMedicalRecordRequire(P, i, "h1")) = "InvalidState"
                   /\ ErrorKind(deactivateMedicalRecordRequire(P, i)) = "InvalidState"
    /\ \A id \in RecordIds \ {""} :
          ~recordIdExists[id] => addMedicalRecordRequire(P, id, "h1") = OK

\* P reads each of its stored records and the list of its active ids
OwnReadsAllowed(P) ==
    /\ \A i \in Indexes :
          Stored(P, i) => getMedicalRecord(P, P, i).reverted = OK
    /\ getPatientRecordIds(P, P).reverted = OK

\* C25: a successful deauthorize(P) takes P out of the authorized set and
\* changes nothing else but the event log: all records, counts and isActive
\* flags, the other addresses' permissions, the owner, the used ids and the
\* total stay.  Right after it P, if not the owner, is refused every add,
\* update and deactivate, while getRecord(P, i) and getRecordIds(P) called by
\* P answer as before.  A successful authorize(P) changes no record either,
\* and right after it P writes to the same records again.
C25_DeauthorizeRevokesWritesOnly ==
    [][ Changed =>
          \A s \in Callers, P \in Callers :
              /\ (deauthorizePatientRequire(s, P) = OK /\ deauthorizePatient(s, P))
                    => /\ patientRecords' = patientRecords
                       /\ patientRecordCount' = patientRecordCount
                       /\ recordIdExists' = recordIdExists
                       /\ totalRecordsStored' = totalRecordsStored
                       /\ owner' = owner
                       /\ \A a \in Address \ {P} :
                             authorizedPatients'[a] = authorizedPatients[a]
                       /\ ~(isPatientAuthorized(P))'
                       /\ P /= owner => (WritesDenied(P))'
                       /\ (OwnReadsAllowed(P))'
                       /\ \A i \in Indexes :
                             (getMedicalRecord(P, P, i))' = getMedicalRecord(P, P, i)
                       /\ (getPatientRecordIds(P, P))' = getPatientRecordIds(P, P)
              /\ (authorizePatientRequire(s, P) = OK /\ authorizePatient(s, P))
                    => /\ patientRecords' = patientRecords
                       /\ patientRecordCount' = patientRecordCount
                       /\ (isPatientAuthorized(P))'
                       /\ (WritesAllowed(P))'
      ]_vars

\* P was authorized, added r1 and was deauthorized: the record is still
\* there and active, P reads it and its id list, and P's writes are refused
C25_Witness ==
    \E P \in Callers \ {owner} :
        /\ Len(events) = 3
        /\ events[1].kind = "PatientAuthorized" /\ events[1].patientAddress = P
        /\ events[2].kind = "MedicalRecordAdded" /\ events[2].patientAddress = P
        /\ events[3].kind = "PatientDeauthorized" /\ events[3].patientAddress = P
        /\ ~isPatientAuthorized(P)
        /\ getPatientRecordCount(P) = 1
        /\ getMedicalRecord(P, P, 0).reverted = OK
        /\ getMedicalRecord(P, P, 0).record.isActive
        /\ getPatientRecordIds(P, P) = [reverted |-> OK, recordIds |-> <<"r1">>]
        /\ WritesDenied(P)

(* ------------------------------- C26 ----------------------------------- *)
\* a step of the REST layer that changed one of its collections
RestChanged == restVars' /= restVars

\* the recordIds of the member's documents that are active
ActiveIdsOf(memberID) ==
    {id \in RestIds :
        \E d \in medicalRecords : d.recordId = id /\ d.memberID = memberID /\ d.isActive}

\* C26: DELETE /api/medical-records/:recordId answers 404 for an unknown
\* id, 403 when the supplied memberID is not the record's, and 200
\* otherwise; a document goes from active to inactive only in a step that is
\* such a DELETE with the record's own memberID, which changes nothing else
\* of the document; no step of any endpoint removes a document, changes its
\* recordId or memberID, or makes an inactive document active; and an
\* inactive document is in neither the list nor the statistics count of its
\* member.
C26_SoftDelete ==
    [][ RestChanged =>
          /\ \A recordId \in RestIds, memberID \in MemberIDs :
                /\ deleteStatus(recordId, memberID) =
                      IF \A d \in medicalRecords : d.recordId /= recordId THEN 404
                      ELSE IF \E d \in medicalRecords :
                                 d.recordId = recordId /\ d.memberID = memberID
                           THEN 200 ELSE 403
                /\ deleteRecord(recordId, memberID)
                      => \E d \in medicalRecords :
                            /\ d.recordId = recordId /\ d.memberID = memberID
                            /\ medicalRecords' = (medicalRecords \ {d})
                                  \cup {[d EXCEPT !.isActive = FALSE]}
          /\ \A d \in medicalRecords :
                /\ Cardinality(FindOne(d.recordId)) = 1
                /\ \E e \in medicalRecords' :
                      /\ e.recordId = d.recordId /\ e.memberID = d.memberID
                      /\ ~d.isActive => ~e.isActive
                      /\ (d.isActive /\ ~e.isActive) => deleteRecord(d.recordId, d.memberID)
                /\ ~d.isActive =>
                      /\ \A x \in listRecords(d.memberID) : x.recordId /= d.recordId
                      /\ d.recordId \notin ActiveIdsOf(d.memberID)
          /\ \A memberID \in MemberIDs :
                /\ statsTotalRecords(memberID) = Cardinality(ActiveIdsOf(memberID))
                /\ {x.recordId : x \in listRecords(memberID)} = ActiveIdsOf(memberID)
      ]_<<vars, restVars>>

\* m1 uploaded REC-1 and REC-2 and deleted REC-1, and the layer went on
\* working (REC-1 was confirmed on chain afterwards): REC-1 is still stored,
\* inactive, and missing from m1's list and count; m2 is answered 403 for
\* REC-2, which stays active
C26_Witness ==
    \E d, e \in medicalRecords :
        /\ d.recordId = "REC-1" /\ d.memberID = "m1"
        /\ ~d.isActive /\ d.blockchainConfirmed
        /\ e.recordId = "REC-2" /\ e.memberID = "m1" /\ e.isActive
        /\ \E ev \in eventDocs :
              ev.eventType = "medical_record:deactivated" /\ ev.recordId = "REC-1"
        /\ listRecords("m1") = {e}
        /\ statsTotalRecords("m1") = 1
        /\ deleteStatus("REC-2", "m2") = 403
        /\ deleteStatus("REC-1", "m1") = 200

====
